---- MODULE Spec2Model ----
(***************************************************************************)
(* A model of kgof/density.py: the family of unnormalized densities, their *)
(* constructors, and the operations log_den, grad_log, dim,                *)
(* log_normalized_den and get_datasource.                                  *)
(*                                                                         *)
(* Numbers.  The program computes in double precision.  The model computes *)
(* exactly in the field Q(t) of rational functions in one indeterminate t, *)
(* extended with the IEEE specials inf, -inf and nan.  In the variants     *)
(* that call np.exp the inputs are integers and t stands for e, so that    *)
(* exp(y) is the monomial t^y (e is transcendental, hence Q(e) = Q(t));    *)
(* in NonHomPoissonSine t stands for tan(1/2), so that cos and sin of an   *)
(* integer are rational functions of t.  A logarithm is kept as a formal   *)
(* term (the field "lg": argument |-> integer coefficient).  Overflow of   *)
(* np.exp is modelled: exp(y) is inf for y > MaxExpArg.  Rounding and      *)
(* underflow are not modelled: they change a value by less than the spec's *)
(* tolerance of 1e-6.                                                      *)
(***************************************************************************)
EXTENDS Integers, Sequences, FiniteSets, TLC

VARIABLES heap, obj, ctor, params0, xref, ret, thr

vars == <<heap, obj, ctor, params0, xref, ret, thr>>

(***************************************************************************)
(* Integer helpers                                                         *)
(***************************************************************************)
Abs(x) == IF x < 0 THEN -x ELSE x

RECURSIVE Gcd(_, _)
Gcd(a, b) == IF b = 0 THEN Abs(a) ELSE Gcd(b, a % b)

RECURSIVE FSum(_)
FSum(f) ==
  IF DOMAIN f = {} THEN 0
  ELSE LET x == CHOOSE y \in DOMAIN f : TRUE
       IN f[x] + FSum([y \in DOMAIN f \ {x} |-> f[y]])

RECURSIVE FGcd(_)
FGcd(f) ==
  IF DOMAIN f = {} THEN 0
  ELSE LET x == CHOOSE y \in DOMAIN f : TRUE
       IN Gcd(f[x], FGcd([y \in DOMAIN f \ {x} |-> f[y]]))

SetMax(S) == CHOOSE x \in S : \A y \in S : y <= x
SetMin(S) == CHOOSE x \in S : \A y \in S : x <= y

\* The integer square root of a perfect square, -1 of any other number.
ISqrt(x) ==
  IF x < 0 THEN -1
  ELSE IF \E r \in 0..x : r * r = x THEN CHOOSE r \in 0..x : r * r = x ELSE -1

(***************************************************************************)
(* Laurent polynomials in t with integer coefficients: a function from the *)
(* exponents with a non-zero coefficient to those coefficients.            *)
(***************************************************************************)
PZero == [e \in {} |-> 0]
PMono(c, e) == IF c = 0 THEN PZero ELSE [x \in {e} |-> c]
PConst(c) == PMono(c, 0)
PTrim(f) == [e \in {x \in DOMAIN f : f[x] # 0} |-> f[e]]
PCoef(p, e) == IF e \in DOMAIN p THEN p[e] ELSE 0
PAdd(p, q) == PTrim([e \in DOMAIN p \cup DOMAIN q |-> PCoef(p, e) + PCoef(q, e)])
PNeg(p) == [e \in DOMAIN p |-> -p[e]]
PMul(p, q) ==
  PTrim([e \in {a + b : a \in DOMAIN p, b \in DOMAIN q} |->
           FSum([a \in {x \in DOMAIN p : (e - x) \in DOMAIN q} |-> p[a] * q[e - a]])])
PShift(p, k) == [e \in {x + k : x \in DOMAIN p} |-> p[e - k]]
PDivInt(p, g) == [e \in DOMAIN p |-> p[e] \div g]
PIsConst(p) == DOMAIN p \subseteq {0}
\* The sign of p at any t > 0 when the coefficients agree in sign (1, -1, 0),
\* and 2 when they do not, where the sign depends on t.
PSign(p) ==
  IF DOMAIN p = {} THEN 0
  ELSE IF \A e \in DOMAIN p : p[e] > 0 THEN 1
  ELSE IF \A e \in DOMAIN p : p[e] < 0 THEN -1
  ELSE 2

(***************************************************************************)
(* Rational functions n/d, kept in a light normal form: the coefficients   *)
(* of n and d have no common integer factor, the lowest exponent of d is 0 *)
(* and the leading coefficient of d is positive.  A rational number is     *)
(* then in lowest terms.  Equality of two rational functions is decided by *)
(* cross-multiplication (REq).                                             *)
(***************************************************************************)
RNorm(n, d) ==
  IF DOMAIN n = {} THEN [n |-> PZero, d |-> PConst(1)]
  ELSE LET g  == Gcd(FGcd(n), FGcd(d))
           s  == IF d[SetMax(DOMAIN d)] < 0 THEN -1 ELSE 1
           k  == -SetMin(DOMAIN d)
       IN [n |-> PShift(PDivInt(n, s * g), k), d |-> PShift(PDivInt(d, s * g), k)]

RInt(c) == [n |-> PConst(c), d |-> PConst(1)]
RFrac(a, b) == RNorm(PConst(a), PConst(b))
RAdd(a, b) ==
  IF a.d = b.d THEN RNorm(PAdd(a.n, b.n), a.d)
  ELSE RNorm(PAdd(PMul(a.n, b.d), PMul(b.n, a.d)), PMul(a.d, b.d))
RNeg(a) == [n |-> PNeg(a.n), d |-> a.d]
RMul(a, b) == RNorm(PMul(a.n, b.n), PMul(a.d, b.d))
RInv(a) == RNorm(a.d, a.n)
REq(a, b) == PMul(a.n, b.d) = PMul(b.n, a.d)
RIsZero(a) == DOMAIN a.n = {}
RIsInt(a) == PIsConst(a.n) /\ a.d = PConst(1)
RIsConst(a) == PIsConst(a.n) /\ PIsConst(a.d)
RIntVal(a) == PCoef(a.n, 0)
RSign(a) ==
  LET sn == PSign(a.n)
      sd == PSign(a.d)
  IN IF sn = 0 THEN 0 ELSE IF sn = 2 \/ sd = 2 THEN 2 ELSE sn * sd
\* a <= b for two rational numbers (denominators are positive).
RLeq(a, b) == RIntVal(a) * PCoef(b.d, 0) <= RIntVal(b) * PCoef(a.d, 0)
RAbs(a) == IF RIntVal(a) < 0 THEN RNeg(a) ELSE a

(***************************************************************************)
(* Scalars: a double is a record [k, r, lg].  k is "fin", "inf", "ninf" or *)
(* "nan"; for a finite value, r is its rational-function part and lg the   *)
(* formal sum of logarithms in it (argument |-> integer coefficient).      *)
(***************************************************************************)
MaxExpArg == 709

Unsupported == CHOOSE x \in {} : TRUE

LZero == [a \in {} |-> 0]
LCoef(f, a) == IF a \in DOMAIN f THEN f[a] ELSE 0
LTrim(f) == [a \in {x \in DOMAIN f : f[x] # 0} |-> f[a]]
LAdd(f, g) == LTrim([a \in DOMAIN f \cup DOMAIN g |-> LCoef(f, a) + LCoef(g, a)])
LScale(c, f) == LTrim([a \in DOMAIN f |-> c * f[a]])

Fin(r) == [k |-> "fin", r |-> r, lg |-> LZero]
Num(c) == Fin(RInt(c))
Frac(a, b) == Fin(RFrac(a, b))
Inf == [k |-> "inf", r |-> RInt(0), lg |-> LZero]
NInf == [k |-> "ninf", r |-> RInt(0), lg |-> LZero]
NaN == [k |-> "nan", r |-> RInt(0), lg |-> LZero]

\* The call f(*args) of a function of the program or of a primitive of its
\* floating-point arithmetic, by name.  The primitives SAdd ... SSin below
\* are calls of FAdd ... FSin, which are defined after them.
RECURSIVE Apply(_, _)
SAdd(a, b) == Apply("add", <<a, b>>)
SMul(a, b) == Apply("multiply", <<a, b>>)
SInv(a) == Apply("reciprocal", <<a>>)
SExp(a) == Apply("exp", <<a>>)
SLog(a) == Apply("log", <<a>>)
SCos(a) == Apply("cos", <<a>>)
SSin(a) == Apply("sin", <<a>>)

\* The sign of a scalar: 1, -1, 0, or 2 when the model cannot tell.
SSign(a) ==
  IF a.k = "inf" THEN 1
  ELSE IF a.k = "ninf" THEN -1
  ELSE IF a.lg # LZero THEN 2
  ELSE RSign(a.r)

SNeg(a) ==
  IF a.k = "fin" THEN [k |-> "fin", r |-> RNeg(a.r), lg |-> LScale(-1, a.lg)]
  ELSE IF a.k = "inf" THEN NInf
  ELSE IF a.k = "ninf" THEN Inf
  ELSE NaN

FAdd(a, b) ==
  IF a.k = "nan" \/ b.k = "nan" THEN NaN
  ELSE IF a.k = "fin" /\ b.k = "fin"
       THEN [k |-> "fin", r |-> RAdd(a.r, b.r), lg |-> LAdd(a.lg, b.lg)]
  ELSE IF a.k = "fin" THEN b
  ELSE IF b.k = "fin" THEN a
  ELSE IF a.k = b.k THEN a
  ELSE NaN

SSub(a, b) == SAdd(a, SNeg(b))

\* A product with a logarithm in it is formed only with an integer factor.
FMul(a, b) ==
  IF a.k = "nan" \/ b.k = "nan" THEN NaN
  ELSE IF a.k = "fin" /\ b.k = "fin"
       THEN [k  |-> "fin",
             r  |-> RMul(a.r, b.r),
             lg |-> IF a.lg = LZero /\ b.lg = LZero THEN LZero
                    ELSE IF b.lg = LZero /\ RIsInt(b.r) THEN LScale(RIntVal(b.r), a.lg)
                    ELSE IF a.lg = LZero /\ RIsInt(a.r) THEN LScale(RIntVal(a.r), b.lg)
                    ELSE Unsupported]
  ELSE LET s == SSign(a) * SSign(b)
       IN IF s = 0 THEN NaN
          ELSE IF s = 1 THEN Inf
          ELSE IF s = -1 THEN NInf
          ELSE Unsupported

\* 1/a; 1/0 is inf, as numpy computes it (with a warning).
FInv(a) ==
  IF a.k = "nan" THEN NaN
  ELSE IF a.k # "fin" THEN Num(0)
  ELSE IF a.lg # LZero THEN Unsupported
  ELSE IF RIsZero(a.r) THEN Inf
  ELSE Fin(RInv(a.r))

SDiv(a, b) == SMul(a, SInv(b))

RECURSIVE SPow(_, _)
SPow(a, k) == IF k = 0 THEN Num(1) ELSE SMul(a, SPow(a, k - 1))

\* np.exp of an integer y: t^y, and inf once y passes the largest argument
\* whose exponential is a finite double.
FExp(a) ==
  IF a.k = "nan" THEN NaN
  ELSE IF a.k = "inf" THEN Inf
  ELSE IF a.k = "ninf" THEN Num(0)
  ELSE IF a.lg # LZero \/ ~RIsInt(a.r) THEN Unsupported
  ELSE IF RIntVal(a.r) > MaxExpArg THEN Inf
  ELSE Fin([n |-> PMono(1, RIntVal(a.r)), d |-> PConst(1)])

\* np.log: a formal logarithm of its argument.
FLog(a) ==
  IF a.k = "nan" \/ a.k = "ninf" THEN NaN
  ELSE IF a.k = "inf" THEN Inf
  ELSE IF a.lg # LZero THEN Unsupported
  ELSE IF RIsZero(a.r) THEN NInf
  ELSE IF RSign(a.r) = -1 THEN NaN
  ELSE [k |-> "fin", r |-> RInt(0), lg |-> [x \in {a.r} |-> 1]]

\* cos and sin of an integer m, as rational functions of t = tan(1/2), by
\* the half-angle formulas for m = 1 and the addition formulas from there.
Cos1 == RNorm(PAdd(PConst(1), PMono(-1, 2)), PAdd(PConst(1), PMono(1, 2)))
Sin1 == RNorm(PMono(2, 1), PAdd(PConst(1), PMono(1, 2)))

RECURSIVE CosSin(_)
CosSin(m) ==
  IF m = 0 THEN <<RInt(1), RInt(0)>>
  ELSE IF m < 0 THEN LET p == CosSin(-m) IN <<p[1], RNeg(p[2])>>
  ELSE LET p == CosSin(m - 1)
       IN <<RAdd(RMul(p[1], Cos1), RNeg(RMul(p[2], Sin1))),
            RAdd(RMul(p[2], Cos1), RMul(p[1], Sin1))>>

FCos(a) ==
  IF a.k # "fin" THEN NaN
  ELSE IF a.lg # LZero \/ ~RIsInt(a.r) THEN Unsupported
  ELSE Fin(CosSin(RIntVal(a.r))[1])

FSin(a) ==
  IF a.k # "fin" THEN NaN
  ELSE IF a.lg # LZero \/ ~RIsInt(a.r) THEN Unsupported
  ELSE Fin(CosSin(RIntVal(a.r))[2])

\* Equality of two doubles; nan equals nothing, itself included.
SEq(a, b) ==
  /\ a.k = b.k
  /\ a.k # "nan"
  /\ a.k = "fin" => (REq(a.r, b.r) /\ a.lg = b.lg)

(***************************************************************************)
(* Dual numbers [v, t]: a value and its derivative along one input         *)
(* coordinate.  The differentiation engine is modelled by propagating them *)
(* through log_den with the derivative rule of each numpy primitive; in    *)
(* exact arithmetic this yields the gradient that autograd accumulates in  *)
(* reverse.                                                                *)
(***************************************************************************)
D(v, t) == [v |-> v, t |-> t]
DConst(s) == D(s, Num(0))
DAdd(x, y) == D(SAdd(x.v, y.v), SAdd(x.t, y.t))
DNeg(x) == D(SNeg(x.v), SNeg(x.t))
DSub(x, y) == D(SSub(x.v, y.v), SSub(x.t, y.t))
DMul(x, y) == D(SMul(x.v, y.v), SAdd(SMul(x.t, y.v), SMul(x.v, y.t)))
DDiv(x, y) ==
  D(SDiv(x.v, y.v),
    IF y.t = Num(0) THEN SDiv(x.t, y.v)
    ELSE SSub(SDiv(x.t, y.v), SMul(SDiv(x.v, SMul(y.v, y.v)), y.t)))
DPow(x, k) == D(SPow(x.v, k), SMul(SMul(Num(k), SPow(x.v, k - 1)), x.t))
DExp(x) == LET e == SExp(x.v) IN D(e, SMul(e, x.t))
DLog(x) == D(SLog(x.v), SDiv(x.t, x.v))
DCos(x) == D(SCos(x.v), SNeg(SMul(SSin(x.v), x.t)))
DSin(x) == D(SSin(x.v), SMul(SCos(x.v), x.t))

(***************************************************************************)
(* numpy arrays: [nd, a, sh, base].  nd is the number of dimensions (0: a  *)
(* scalar), a the elements (dual numbers while a computation runs, scalars *)
(* in the heap), sh the shape, base the heap cell whose buffer the array   *)
(* occupies, 0 for a newly allocated array.  Every numpy function used by  *)
(* the program returns a new array.                                        *)
(***************************************************************************)
Arr(nd, a) ==
  [nd   |-> nd,
   a    |-> a,
   sh   |-> IF nd = 0 THEN <<>>
            ELSE IF nd = 1 THEN <<Len(a)>>
            ELSE <<Len(a), IF Len(a) = 0 THEN 0 ELSE Len(a[1])>>,
   base |-> 0]
Rows(A) == A.sh[1]
Cols(A) == A.sh[2]

\* The element at (i, j) of A broadcast to two dimensions, at j to one.
Elem2(A, i, j) == IF A.nd = 0 THEN A.a ELSE IF A.nd = 1 THEN A.a[j] ELSE A.a[i][j]
Elem1(A, j) == IF A.nd = 0 THEN A.a ELSE A.a[j]

NpMap(Op(_), A) ==
  IF A.nd = 0 THEN Arr(0, Op(A.a))
  ELSE IF A.nd = 1 THEN Arr(1, [j \in 1..Len(A.a) |-> Op(A.a[j])])
  ELSE Arr(2, [i \in 1..Rows(A) |-> [j \in 1..Cols(A) |-> Op(A.a[i][j])]])

\* An elementwise binary operation with numpy's broadcasting.
NpBin(Op(_, _), A, B) ==
  LET nd == IF A.nd >= B.nd THEN A.nd ELSE B.nd
      W  == IF A.nd >= B.nd THEN A ELSE B
  IN IF nd = 0 THEN Arr(0, Op(A.a, B.a))
     ELSE IF nd = 1 THEN Arr(1, [j \in 1..Len(W.a) |-> Op(Elem1(A, j), Elem1(B, j))])
     ELSE Arr(2, [i \in 1..Rows(W) |->
                    [j \in 1..Cols(W) |-> Op(Elem2(A, i, j), Elem2(B, i, j))]])

NpAdd(A, B) == NpBin(DAdd, A, B)
NpSub(A, B) == NpBin(DSub, A, B)
NpMul(A, B) == NpBin(DMul, A, B)
NpDiv(A, B) == NpBin(DDiv, A, B)
NpNeg(A) == NpMap(DNeg, A)
NpExp(A) == NpMap(DExp, A)
NpLog(A) == NpMap(DLog, A)
NpCos(A) == NpMap(DCos, A)
NpSin(A) == NpMap(DSin, A)
NpPow(A, k) == NpMap(LAMBDA x : DPow(x, k), A)

RECURSIVE SumSeq(_)
SumSeq(s) == IF Len(s) = 1 THEN s[1] ELSE DAdd(SumSeq(SubSeq(s, 1, Len(s) - 1)), s[Len(s)])

\* np.sum(A, 1): the sum of each row.
NpSum1(A) == Arr(1, [i \in 1..Rows(A) |-> SumSeq(A.a[i])])

\* np.dot of a matrix with a matrix or with a vector.
NpDot(A, B) ==
  IF B.nd = 2
  THEN Arr(2, [i \in 1..Rows(A) |->
                 [k \in 1..Cols(B) |->
                    SumSeq([j \in 1..Cols(A) |-> DMul(A.a[i][j], B.a[j][k])])]])
  ELSE Arr(1, [i \in 1..Rows(A) |->
                 SumSeq([j \in 1..Cols(A) |-> DMul(A.a[i][j], B.a[j])])])

NpT(A) == Arr(2, [j \in 1..Cols(A) |-> [i \in 1..Rows(A) |-> A.a[i][j]]])
NpDiag(A) ==
  Arr(2, [i \in 1..Len(A.a) |->
            [j \in 1..Len(A.a) |-> IF i = j THEN A.a[i] ELSE DConst(Num(0))]])
K(c) == Arr(0, DConst(Num(c)))
KS(s) == Arr(0, DConst(s))

\* An array of scalars as an array of constants, and back.
Lift(A) == [NpMap(DConst, A) EXCEPT !.base = A.base]
Primal(A) == [NpMap(LAMBDA x : x.v, A) EXCEPT !.base = A.base]
Tangent(A) == NpMap(LAMBDA x : x.t, A)
\* X with the derivative of its element (i, j) set to one.
Seed(X, i, j) ==
  Arr(2, [p \in 1..Rows(X) |->
            [q \in 1..Cols(X) |->
               D(X.a[p][q], IF p = i /\ q = j THEN Num(1) ELSE Num(0))]])

RECURSIVE SSumSeq(_)
SSumSeq(s) == IF Len(s) = 1 THEN s[1] ELSE SAdd(SSumSeq(SubSeq(s, 1, Len(s) - 1)), s[Len(s)])

\* Equality of two arrays of scalars, element by element.
ArrEq(A, B) ==
  /\ A.nd = B.nd
  /\ IF A.nd = 0 THEN SEq(A.a, B.a)
     ELSE IF A.nd = 1
          THEN Len(A.a) = Len(B.a) /\ \A j \in 1..Len(A.a) : SEq(A.a[j], B.a[j])
     ELSE /\ Rows(A) = Rows(B)
          /\ \A i \in 1..Rows(A) :
               /\ Len(A.a[i]) = Len(B.a[i])
               /\ \A j \in 1..Len(A.a[i]) : SEq(A.a[i][j], B.a[i][j])

(***************************************************************************)
(* The differentiation engine: autograd.elementwise_grad(f)(X) is the      *)
(* gradient of the sum of f's outputs with respect to X, an array of the   *)
(* shape of X.                                                             *)
(***************************************************************************)
ElementwiseGrad(F(_), X) ==
  Arr(2, [i \in 1..Rows(X) |->
            [j \in 1..Cols(X) |-> SSumSeq(Tangent(F(Seed(X, i, j))).a)]])

(***************************************************************************)
(* Instances are records of attributes, as a Python object's __dict__, and *)
(* "cls" names the class.  An array attribute holds a heap reference.      *)
(***************************************************************************)
NoObj == [cls |-> "none"]
HasAttr(o, name) == name \in DOMAIN o
SetAttr(o, name, v) == [x \in DOMAIN o \cup {name} |-> IF x = name THEN v ELSE o[x]]

Variants ==
  {"IsotropicNormal", "Normal", "GaussBernRBM", "NonHomPoissonLinear",
   "NonHomPoissonSine", "Gamma", "LogGamma", "LogPoissonLinear"}

\* The methods each class defines itself; the others come from
\* UnnormalizedDensity.
Defines(cls) ==
  CASE cls = "IsotropicNormal" ->
         {"__init__", "log_den", "log_normalized_den", "get_datasource", "dim"}
    [] cls = "Normal" -> {"__init__", "log_den", "get_datasource", "dim"}
    [] cls = "GaussBernRBM" ->
         {"__init__", "log_den", "grad_log", "get_datasource", "dim"}
    [] cls = "NonHomPoissonLinear" -> {"__init__", "log_den", "dim"}
    [] cls = "NonHomPoissonSine" -> {"__init__", "log_den", "dim"}
    [] cls = "Gamma" -> {"__init__", "log_den", "get_datasource", "dim"}
    [] cls = "LogGamma" -> {"__init__", "log_den", "get_datasource", "dim"}
    [] cls = "LogPoissonLinear" -> {"__init__", "log_den", "dim"}

\* Method resolution: the class whose definition of the method runs.
Resolve(cls, method) == IF method \in Defines(cls) THEN cls ELSE "UnnormalizedDensity"

(***************************************************************************)
(* log_den of each variant, on an array X of dual numbers.                 *)
(***************************************************************************)
\* log_den with the sum divided by the variance, not by twice the variance.
IsotropicNormal_log_den_no_half(self, h, X) ==
  LET mean     == Lift(h[self.mean])
      variance == KS(self.variance)
  IN NpDiv(NpNeg(NpSum1(NpPow(NpSub(X, mean), 2))), variance)

IsotropicNormal_log_den(self, h, X) ==
  LET mean     == Lift(h[self.mean])
      variance == KS(self.variance)
      unden    == NpDiv(NpNeg(NpSum1(NpPow(NpSub(X, mean), 2))), NpMul(K(2), variance))
  IN unden

Normal_log_den(self, h, X) ==
  LET mean   == Lift(h[self.mean])
      X0     == NpSub(X, mean)
      X0prec == NpDot(X0, Lift(h[self.prec]))
      unden  == NpDiv(NpNeg(NpSum1(NpMul(X0prec, X0))), K(2))
  IN unden

GaussBernRBM_log_den(self, h, X) ==
  LET B     == Lift(h[self.B])
      b     == Lift(h[self.b])
      c     == Lift(h[self.c])
      XBC   == NpAdd(NpDot(X, B), c)
      unden == NpAdd(NpSub(NpDot(X, b), NpMul(KS(Frac(1, 2)), NpSum1(NpPow(X, 2)))),
                     NpSum1(NpLog(NpAdd(NpExp(XBC), NpExp(NpNeg(XBC))))))
  IN unden

NonHomPoissonLinear_log_den(self, h, X) ==
  LET b     == KS(self.b)
      unden == NpNeg(NpSum1(NpSub(NpAdd(NpMul(NpMul(KS(Frac(1, 2)), b), NpPow(X, 2)), X),
                                  NpLog(NpAdd(K(1), NpMul(b, X))))))
  IN unden

NonHomPoissonSine_log_den(self, h, X) ==
  LET b     == KS(self.b)
      w     == KS(self.w)
      unden == NpSum1(NpAdd(NpMul(b, NpAdd(NpNeg(X),
                                           NpDiv(NpSub(NpCos(NpMul(w, X)), K(1)), w))),
                            NpLog(NpMul(b, NpAdd(K(1), NpSin(NpMul(w, X)))))))
  IN unden

Gamma_log_den(self, h, X) ==
  LET alpha == KS(self.alpha)
      beta  == KS(self.beta)
      unden == NpSum1(NpAdd(NpMul(NpNeg(beta), X), NpMul(NpSub(alpha, K(1)), NpLog(X))))
  IN unden

LogGamma_log_den(self, h, X) ==
  LET alpha == KS(self.alpha)
      beta  == KS(self.beta)
      unden == NpSum1(NpAdd(NpAdd(NpMul(NpNeg(beta), NpExp(X)),
                                  NpMul(NpSub(alpha, K(1)), X)), X))
  IN unden

LogPoissonLinear_log_den(self, h, X) ==
  LET b     == KS(self.b)
      unden == NpNeg(NpSum1(NpSub(NpSub(NpAdd(NpMul(NpMul(KS(Frac(1, 2)), b),
                                                    NpPow(NpExp(X), 2)), NpExp(X)),
                                        NpLog(NpAdd(K(1), NpMul(b, NpExp(X))))), X)))
  IN unden

\* self.log_den(X): the call dispatched on the class of self.
log_den(self, h, X) ==
  CASE self.cls = "IsotropicNormal" -> IsotropicNormal_log_den(self, h, X)
    [] self.cls = "Normal" -> Normal_log_den(self, h, X)
    [] self.cls = "GaussBernRBM" -> GaussBernRBM_log_den(self, h, X)
    [] self.cls = "NonHomPoissonLinear" -> NonHomPoissonLinear_log_den(self, h, X)
    [] self.cls = "NonHomPoissonSine" -> NonHomPoissonSine_log_den(self, h, X)
    [] self.cls = "Gamma" -> Gamma_log_den(self, h, X)
    [] self.cls = "LogGamma" -> LogGamma_log_den(self, h, X)
    [] self.cls = "LogPoissonLinear" -> LogPoissonLinear_log_den(self, h, X)

(***************************************************************************)
(* grad_log: the default of UnnormalizedDensity and the override of        *)
(* GaussBernRBM.  Both take and return arrays of scalars.                  *)
(***************************************************************************)
\* The gradient of the first entry of log_den(X) alone, as autograd.grad of
\* that entry would give.
GradOfFirstOutput(self, h, X) ==
  Arr(2, [i \in 1..Rows(X) |->
            [j \in 1..Cols(X) |-> Tangent(log_den(self, h, Seed(X, i, j))).a[1]]])

UnnormalizedDensity_grad_log(self, h, X) ==
  LET G == ElementwiseGrad(LAMBDA Z : log_den(self, h, Z), X)
  IN G

\* grad_log accumulating its result in the buffer of X.
GaussBernRBM_grad_log_inplace(self, h, X) ==
  LET XD  == Lift(X)
      B   == Lift(h[self.B])
      Y   == NpAdd(NpDot(XD, B), Lift(h[self.c]))
      E2y == NpExp(NpMul(K(2), Y))
      Phi == NpDiv(NpSub(E2y, K(1)), NpAdd(E2y, K(1)))
      S   == NpAdd(NpSub(Lift(h[self.b]), XD), NpDot(Phi, NpT(B)))
  IN [Primal(S) EXCEPT !.base = X.base]

GaussBernRBM_grad_log(self, h, X) ==
  LET XD  == Lift(X)
      B   == Lift(h[self.B])
      XB  == NpDot(XD, B)
      Y   == NpAdd(XB, Lift(h[self.c]))
      E2y == NpExp(NpMul(K(2), Y))
      Phi == NpDiv(NpSub(E2y, K(1)), NpAdd(E2y, K(1)))
      T   == NpDot(Phi, NpT(B))
      S   == NpAdd(NpSub(Lift(h[self.b]), XD), T)
  IN Primal(S)

grad_log(self, h, X) ==
  IF Resolve(self.cls, "grad_log") = "GaussBernRBM"
  THEN GaussBernRBM_grad_log(self, h, X)
  ELSE UnnormalizedDensity_grad_log(self, h, X)

(***************************************************************************)
(* The heap: references (positive integers) to arrays of scalars.          *)
(***************************************************************************)
HPut(h, id, v) == [x \in DOMAIN h \cup {id} |-> IF x = id THEN v ELSE h[x]]
HDel(h, ids) == [x \in DOMAIN h \ ids |-> h[x]]
Alloc(h) == SetMin((1..(Cardinality(DOMAIN h) + 1)) \ DOMAIN h)
\* The array a reference denotes, occupying that cell's buffer.
Load(h, id) == [h[id] EXCEPT !.base = id]

NoArr == [nd |-> -1, a |-> <<>>, sh |-> <<>>, base |-> 0]
NoVal == [t |-> "none", i |-> 0, ds |-> "", args |-> <<>>]
IntVal(i) == [t |-> "int", i |-> i, ds |-> "", args |-> <<>>]
NoneVal == [t |-> "None", i |-> 0, ds |-> "", args |-> <<>>]
DSVal(ds, args) == [t |-> "ds", i |-> 0, ds |-> ds, args |-> args]

\* How a call ends: with a value (an array or another value) or an exception.
Value(arr) == [kind |-> "value", exc |-> "", arr |-> arr, val |-> NoVal]
ValueV(val) == [kind |-> "value", exc |-> "", arr |-> NoArr, val |-> val]
Raise(exc) == [kind |-> "raise", exc |-> exc, arr |-> NoArr, val |-> NoVal]

(***************************************************************************)
(* np.linalg.eig of a 1x1 or 2x2 matrix of rational numbers whose          *)
(* eigenvalues are rational: E the eigenvalues, U an eigenvector for each  *)
(* (the columns), N2 the squared lengths of the columns.  numpy returns    *)
(* the eigenvectors scaled to length one, V = U / sqrt(N2).                *)
(***************************************************************************)
EigTolInv == 10000000

SSqrt(x) ==
  LET n == ISqrt(RIntVal(x.r))
      d == ISqrt(PCoef(x.r.d, 0))
  IN IF n < 0 \/ d < 0 THEN Unsupported ELSE Frac(n, d)

Eig(cov) ==
  IF Rows(cov) = 1
  THEN [E |-> Arr(1, <<cov.a[1][1]>>), U |-> Arr(2, <<<<Num(1)>>>>), N2 |-> Arr(1, <<Num(1)>>)]
  ELSE LET a    == cov.a[1][1]
           b    == cov.a[1][2]
           c    == cov.a[2][1]
           d    == cov.a[2][2]
           tri  == b = Num(0) \/ c = Num(0)
           tr   == SAdd(a, d)
           det  == SSub(SMul(a, d), SMul(b, c))
           sq   == SSqrt(SSub(SMul(tr, tr), SMul(Num(4), det)))
           l1   == IF tri THEN a ELSE SDiv(SSub(tr, sq), Num(2))
           l2   == IF tri THEN d ELSE SDiv(SAdd(tr, sq), Num(2))
           vec(l, k) == IF b # Num(0) THEN <<b, SSub(l, a)>>
                        ELSE IF c # Num(0) THEN <<SSub(l, d), c>>
                        ELSE IF k = 1 THEN <<Num(1), Num(0)>>
                        ELSE <<Num(0), Num(1)>>
           u1   == vec(l1, 1)
           u2   == vec(l2, 2)
           n2(u) == SAdd(SMul(u[1], u[1]), SMul(u[2], u[2]))
       IN [E  |-> Arr(1, <<l1, l2>>),
           U  |-> Arr(2, <<<<u1[1], u2[1]>>, <<u1[2], u2[2]>>>>),
           N2 |-> Arr(1, <<n2(u1), n2(u2)>>)]

\* np.any(np.abs(E) < 1e-7): the comparison made strict.
AnyEigBelow(E) ==
  \E k \in 1..Len(E.a) :
    /\ RLeq(RAbs(E.a[k].r), RFrac(1, EigTolInv))
    /\ ~REq(RAbs(E.a[k].r), RFrac(1, EigTolInv))

\* np.any(np.abs(E) <= 1e-7)
AnyEigSmall(E) ==
  \E k \in 1..Len(E.a) : RLeq(RAbs(E.a[k].r), RFrac(1, EigTolInv))

(***************************************************************************)
(* Constructors.  Each takes the heap and its arguments (references for    *)
(* arrays, scalars for numbers) and yields how __init__ ended: status,     *)
(* exception, the attributes set on the instance by then, the heap, and    *)
(* what was printed.                                                       *)
(***************************************************************************)
InitOk(inst, h, out) ==
  [status |-> "ok", exc |-> "", inst |-> inst, heap |-> h, out |-> out]
InitRaised(exc, inst, h) ==
  [status |-> "raised", exc |-> exc, inst |-> inst, heap |-> h, out |-> NoArr]

IsotropicNormal__init__(h, mean, variance) ==
  InitOk([cls |-> "IsotropicNormal", mean |-> mean, variance |-> variance], h, NoArr)

\* np.dot(np.dot(V, np.diag(1.0/np.abs(E))), V.T): the magnitudes of the
\* eigenvalues, which the rank test uses, in place of the eigenvalues.
Normal_prec_abs(eg) ==
  LET absE == Arr(1, [k \in 1..Len(eg.E.a) |-> Fin(RAbs(eg.E.a[k].r))])
  IN Primal(NpDot(NpDot(Lift(eg.U),
                        NpDiag(NpDiv(K(1), NpMul(Lift(absE), Lift(eg.N2))))),
                  NpT(Lift(eg.U))))

\* self.prec = np.dot(np.dot(V, np.diag(1.0/E)), V.T), with V = U / sqrt(N2):
\* the two factors 1/sqrt(N2) of each column meet on the diagonal.
Normal_prec(eg) ==
  Primal(NpDot(NpDot(Lift(eg.U),
                     NpDiag(NpDiv(K(1), NpMul(Lift(eg.E), Lift(eg.N2))))),
               NpT(Lift(eg.U))))

Normal__init__(h, mean, cov) ==
  LET s1 == SetAttr([cls |-> "Normal"], "mean", mean)
      s2 == SetAttr(s1, "cov", cov)
  IN IF h[mean].sh[1] # h[cov].sh[1] THEN InitRaised("AssertionError", s2, h)
     ELSE IF h[cov].sh[1] # h[cov].sh[2] THEN InitRaised("AssertionError", s2, h)
     ELSE LET eg == Eig(h[cov])
          IN IF AnyEigSmall(eg.E) THEN InitRaised("ValueError", s2, h)
             ELSE LET prec == Normal_prec(eg)
                      id   == Alloc(h)
                  IN InitOk(SetAttr(s2, "prec", id), HPut(h, id, prec), prec)

\* __init__ storing the parameters before it checks them.
GaussBernRBM__init__store_first(h, B, b, c) ==
  LET dh == h[c].sh[1]
      dx == h[b].sh[1]
      s3 == [cls |-> "GaussBernRBM", B |-> B, b |-> b, c |-> c]
  IN IF h[B].sh[1] # dx \/ h[B].sh[2] # dh \/ ~(dx > 0) \/ ~(dh > 0)
     THEN InitRaised("AssertionError", s3, h)
     ELSE InitOk(s3, h, NoArr)

GaussBernRBM__init__(h, B, b, c) ==
  LET dh == h[c].sh[1]
      dx == h[b].sh[1]
      s0 == [cls |-> "GaussBernRBM"]
  IN IF h[B].sh[1] # dx THEN InitRaised("AssertionError", s0, h)
     ELSE IF h[B].sh[2] # dh THEN InitRaised("AssertionError", s0, h)
     ELSE IF ~(dx > 0) THEN InitRaised("AssertionError", s0, h)
     ELSE IF ~(dh > 0) THEN InitRaised("AssertionError", s0, h)
     ELSE InitOk(SetAttr(SetAttr(SetAttr(s0, "B", B), "b", b), "c", c), h, NoArr)

NonHomPoissonLinear__init__(h, b) ==
  InitOk([cls |-> "NonHomPoissonLinear", b |-> b], h, NoArr)

NonHomPoissonSine__init__(h, w, b) ==
  InitOk([cls |-> "NonHomPoissonSine", b |-> b, w |-> w], h, NoArr)

Gamma__init__(h, alpha, beta) ==
  InitOk([cls |-> "Gamma", alpha |-> alpha, beta |-> beta], h, NoArr)

LogGamma__init__(h, alpha, beta) ==
  InitOk([cls |-> "LogGamma", alpha |-> alpha, beta |-> beta], h, NoArr)

LogPoissonLinear__init__(h, b) ==
  InitOk([cls |-> "LogPoissonLinear", b |-> b], h, NoArr)

(***************************************************************************)
(* dim, log_normalized_den and get_datasource.  scipy's logpdf and the     *)
(* DataSource classes of kgof.data are outside this module of the program: *)
(* a call to one is kept as the call itself, its name and its arguments.   *)
(***************************************************************************)
dim(self, h) ==
  CASE self.cls = "IsotropicNormal" -> h[self.mean].sh[1]
    [] self.cls = "Normal" -> h[self.mean].sh[1]
    [] self.cls = "GaussBernRBM" -> h[self.b].sh[1]
    [] OTHER -> 1

NpEye(d) == Arr(2, [i \in 1..d |-> [j \in 1..d |-> DConst(Num(IF i = j THEN 1 ELSE 0))]])

IsotropicNormal_log_normalized_den(self, h, X) ==
  LET d   == dim(self, h)
      cov == Primal(NpMul(KS(self.variance), NpEye(d)))
  IN Value(Arr(1, [i \in 1..Rows(X) |->
                     [k |-> "ext", fn |-> "stats.multivariate_normal.logpdf",
                      x |-> X.a[i], mean |-> h[self.mean].a, cov |-> cov.a]]))

\* log_normalized_den returning None instead of raising.
ReturnsNone(self, h, X) == ValueV(NoneVal)

UnnormalizedDensity_log_normalized_den(self, h, X) == Raise("NotImplementedError")

call_log_normalized_den(self, h, X) ==
  IF Resolve(self.cls, "log_normalized_den") = "IsotropicNormal"
  THEN IsotropicNormal_log_normalized_den(self, h, X)
  ELSE UnnormalizedDensity_log_normalized_den(self, h, X)

UnnormalizedDensity_get_datasource(self) == ValueV(NoneVal)

IsotropicNormal_get_datasource(self) ==
  ValueV(DSVal("DSIsotropicNormal", <<self.mean, self.variance>>))

Normal_get_datasource(self) == ValueV(DSVal("DSNormal", <<self.mean, self.cov>>))

GaussBernRBM_get_datasource(self) ==
  ValueV(DSVal("DSGaussBernRBM", <<self.B, self.b, self.c>>))

\* return data.DSNormal(self.mean, self.cov): the read of an attribute the
\* instance does not have raises AttributeError.
Gamma_get_datasource(self) ==
  IF ~HasAttr(self, "mean") \/ ~HasAttr(self, "cov") THEN Raise("AttributeError")
  ELSE ValueV(DSVal("DSNormal", <<self.mean, self.cov>>))

LogGamma_get_datasource(self) ==
  IF ~HasAttr(self, "mean") \/ ~HasAttr(self, "cov") THEN Raise("AttributeError")
  ELSE ValueV(DSVal("DSNormal", <<self.mean, self.cov>>))

call_get_datasource(self) ==
  LET c == Resolve(self.cls, "get_datasource")
  IN CASE c = "IsotropicNormal" -> IsotropicNormal_get_datasource(self)
       [] c = "Normal" -> Normal_get_datasource(self)
       [] c = "GaussBernRBM" -> GaussBernRBM_get_datasource(self)
       [] c = "Gamma" -> Gamma_get_datasource(self)
       [] c = "LogGamma" -> LogGamma_get_datasource(self)
       [] OTHER -> UnnormalizedDensity_get_datasource(self)

\* self.log_den(X) as the caller sees it; GaussBernRBM.log_den ends with
\* assert len(unden) == X.shape[0].
call_log_den(self, h, X) ==
  LET unden == Primal(log_den(self, h, Lift(X)))
  IN IF self.cls = "GaussBernRBM" /\ Len(unden.a) # X.sh[1]
     THEN Raise("AssertionError")
     ELSE Value(unden)

call_grad_log(self, h, X) == Value(grad_log(self, h, X))

call_dim(self, h) == ValueV(IntVal(dim(self, h)))

(***************************************************************************)
(* The methods statement by statement, for the callers that run            *)
(* concurrently: a statement binds one local variable of the frame of the  *)
(* call.  A call of grad_log runs the statements of log_den on the         *)
(* engine's traced copies of X (one per seed, see ElementwiseGrad): a      *)
(* local of its frame holds one array per seed.                            *)
(***************************************************************************)
\* Normal.log_den, statement by statement: the local bound and its value.
Normal_log_den_stmt(self, h, pc, X, L) ==
  CASE pc = 1 -> <<"X0", NpSub(X, Lift(h[self.mean]))>>
    [] pc = 2 -> <<"X0prec", NpDot(L.X0, Lift(h[self.prec]))>>
    [] pc = 3 -> <<"unden", NpDiv(NpNeg(NpSum1(NpMul(L.X0prec, L.X0))), K(2))>>

\* IsotropicNormal.log_den, statement by statement.
IsotropicNormal_log_den_stmt(self, h, pc, X, L) ==
  CASE pc = 1 -> <<"mean", Lift(h[self.mean])>>
    [] pc = 2 -> <<"variance", KS(self.variance)>>
    [] pc = 3 -> <<"unden", NpDiv(NpNeg(NpSum1(NpPow(NpSub(X, L.mean), 2))),
                                  NpMul(K(2), L.variance))>>

log_den_stmt(self, h, pc, X, L) ==
  CASE self.cls = "Normal" -> Normal_log_den_stmt(self, h, pc, X, L)
    [] self.cls = "IsotropicNormal" -> IsotropicNormal_log_den_stmt(self, h, pc, X, L)

\* The copies of X a call runs log_den on: X itself for log_den, X with one
\* element seeded for each element of X for grad_log.
NoSeed == <<0, 0>>
Seeds(op, X) == IF op = "log_den" THEN {NoSeed} ELSE (1..Rows(X)) \X (1..Cols(X))
Traced(X, sd) == IF sd = NoSeed THEN Lift(X) ELSE Seed(X, sd[1], sd[2])

\* The locals of a frame as one copy of X sees them.
View(loc, sd) == [n \in DOMAIN loc \ {"g", "G"} |-> loc[n][sd]]

\* The frame after the statement at pc of the call th has run on it.
Exec(self, h, th, loc) ==
  LET sds  == Seeds(th.op, th.X)
      name == log_den_stmt(self, h, th.pc, Traced(th.X, CHOOSE sd \in sds : TRUE),
                           View(loc, CHOOSE sd \in sds : TRUE))[1]
  IN SetAttr(loc, name,
             [sd \in sds |-> log_den_stmt(self, h, th.pc, Traced(th.X, sd), View(loc, sd))[2]])

\* G = g(X): the gradient assembled from the traced runs of log_den.
AssembleG(th, loc) ==
  Arr(2, [i \in 1..Rows(th.X) |->
            [j \in 1..Cols(th.X) |-> SSumSeq(Tangent(loc.unden[<<i, j>>]).a)]])

(***************************************************************************)
(* The calls the model makes by name: the floating-point primitives, the   *)
(* constructors (a call of the class) and the methods of an instance.      *)
(***************************************************************************)
Apply(f, a) ==
  CASE f = "add" -> FAdd(a[1], a[2])
    [] f = "multiply" -> FMul(a[1], a[2])
    [] f = "reciprocal" -> FInv(a[1])
    [] f = "exp" -> FExp(a[1])
    [] f = "log" -> FLog(a[1])
    [] f = "cos" -> FCos(a[1])
    [] f = "sin" -> FSin(a[1])
    [] f = "IsotropicNormal" -> IsotropicNormal__init__(a[1], a[2], a[3])
    [] f = "Normal" -> Normal__init__(a[1], a[2], a[3])
    [] f = "GaussBernRBM" -> GaussBernRBM__init__(a[1], a[2], a[3], a[4])
    [] f = "NonHomPoissonLinear" -> NonHomPoissonLinear__init__(a[1], a[2])
    [] f = "NonHomPoissonSine" -> NonHomPoissonSine__init__(a[1], a[2], a[3])
    [] f = "Gamma" -> Gamma__init__(a[1], a[2], a[3])
    [] f = "LogGamma" -> LogGamma__init__(a[1], a[2], a[3])
    [] f = "LogPoissonLinear" -> LogPoissonLinear__init__(a[1], a[2])
    [] f = "log_den" -> call_log_den(a[1], a[2], a[3])
    [] f = "grad_log" -> call_grad_log(a[1], a[2], a[3])
    [] f = "log_normalized_den" -> call_log_normalized_den(a[1], a[2], a[3])
    [] f = "dim" -> call_dim(a[1], a[2])
    [] f = "get_datasource" -> call_get_datasource(a[1])
    [] f = "statement" -> Exec(a[1], a[2], a[3], a[4])
    [] f = "g" -> AssembleG(a[1], a[2])

(***************************************************************************)
(* The inputs the model draws from.                                        *)
(***************************************************************************)
MaxRows == 2

Vec(s) == Arr(1, [i \in 1..Len(s) |-> Num(s[i])])
Mat(s) == Arr(2, [i \in 1..Len(s) |-> [j \in 1..Len(s[i]) |-> Num(s[i][j])]])
\* A matrix with no rows, of shape (0, m).
Mat0(m) == [Arr(2, <<>>) EXCEPT !.sh = <<0, m>>]
Mat1(x) == Arr(2, <<<<x>>>>)

IsotropicNormalArgs ==
  {[mean |-> Vec(<<0, 0>>), variance |-> Num(1)],
   [mean |-> Vec(<<1, 2>>), variance |-> Num(2)],
   [mean |-> Vec(<<1>>), variance |-> Frac(1, 2)]}

NormalArgs ==
  {[mean |-> Vec(<<0>>), cov |-> Mat(<<<<1>>>>)],
   [mean |-> Vec(<<1>>), cov |-> Mat(<<<<2>>>>)],
   [mean |-> Vec(<<0>>), cov |-> Mat(<<<<-1>>>>)],
   [mean |-> Vec(<<0>>), cov |-> Mat(<<<<0>>>>)],
   [mean |-> Vec(<<0>>), cov |-> Mat1(Frac(1, 10 * EigTolInv))],
   [mean |-> Vec(<<0>>), cov |-> Mat1(Frac(-1, 10 * EigTolInv))],
   [mean |-> Vec(<<0>>), cov |-> Mat1(Frac(1, EigTolInv))],
   [mean |-> Vec(<<0>>), cov |-> Mat1(Frac(2, EigTolInv))],
   [mean |-> Vec(<<0, 0>>), cov |-> Mat(<<<<1, 0>>, <<0, 1>>>>)],
   [mean |-> Vec(<<1, 0>>), cov |-> Mat(<<<<2, 1>>, <<1, 2>>>>)],
   [mean |-> Vec(<<0, 0>>), cov |-> Mat(<<<<1, 2>>, <<2, 1>>>>)],
   [mean |-> Vec(<<0, 0>>), cov |-> Mat(<<<<1, 1>>, <<1, 1>>>>)],
   [mean |-> Vec(<<0, 0>>), cov |-> Mat(<<<<2, 1>>, <<0, 1>>>>)],
   [mean |-> Vec(<<0, 0>>), cov |-> Mat(<<<<1, 1>>, <<0, 1>>>>)],
   [mean |-> Vec(<<0, 0>>),
    cov  |-> Arr(2, <<<<Num(1), Num(0)>>, <<Num(0), Frac(1, 10 * EigTolInv)>>>>)],
   [mean |-> Vec(<<0>>), cov |-> Mat(<<<<1, 0>>, <<0, 1>>>>)],
   [mean |-> Vec(<<0, 0>>), cov |-> Mat(<<<<1>>>>)],
   [mean |-> Vec(<<0, 0>>), cov |-> Mat(<<<<1>>, <<1>>>>)],
   [mean |-> Vec(<<0>>), cov |-> Mat(<<<<1, 0>>>>)]}

GaussBernRBMArgs ==
  {[B |-> Mat(<<<<1>>>>), b |-> Vec(<<0>>), c |-> Vec(<<0>>)],
   [B |-> Mat(<<<<0>>>>), b |-> Vec(<<0>>), c |-> Vec(<<0>>)],
   [B |-> Mat(<<<<2>>>>), b |-> Vec(<<1>>), c |-> Vec(<<-1>>)],
   [B |-> Mat(<<<<1, -1>>>>), b |-> Vec(<<1>>), c |-> Vec(<<0, 1>>)],
   [B |-> Mat(<<<<1>>, <<0>>>>), b |-> Vec(<<0, 1>>), c |-> Vec(<<0>>)],
   [B |-> Mat(<<<<1, 0>>, <<1, 1>>>>), b |-> Vec(<<0, 0>>), c |-> Vec(<<1, 0>>)],
   [B |-> Mat(<<<<1>>>>), b |-> Vec(<<0, 0>>), c |-> Vec(<<0>>)],
   [B |-> Mat(<<<<1, 0>>>>), b |-> Vec(<<0>>), c |-> Vec(<<0>>)],
   [B |-> Mat0(1), b |-> Vec(<<>>), c |-> Vec(<<0>>)],
   [B |-> Mat(<<<<>>>>), b |-> Vec(<<0>>), c |-> Vec(<<>>)]}

SlopeArgs == {Num(1), Num(2)}
SineArgs == {[w |-> Num(2), b |-> Num(1)], [w |-> Num(1), b |-> Num(2)]}
GammaArgs == {[alpha |-> Num(2), beta |-> Num(1)], [alpha |-> Num(3), beta |-> Num(2)]}

\* The rows a batch for the instance is made of: of width dim(), and inside
\* the domain of the density.
RowsFor(o, h) ==
  LET d == dim(o, h)
  IN CASE o.cls = "GaussBernRBM" ->
            IF d = 1 THEN {<<1>>, <<400>>} ELSE {<<1, 1>>, <<400, 0>>}
       [] o.cls = "Gamma" -> {<<1>>, <<2>>}
       [] o.cls = "IsotropicNormal" ->
            IF d = 1 THEN {<<0>>, <<1>>} ELSE {<<0, 0>>, <<1, 1>>, <<1, 2>>}
       [] OTHER -> IF d = 1 THEN {<<0>>, <<1>>} ELSE {<<0, 0>>, <<1, 2>>}

Batches(o, h) ==
  {Mat(s) : s \in UNION {[1..n -> RowsFor(o, h)] : n \in 1..MaxRows}}

(***************************************************************************)
(* The state.  heap: the arrays; obj: the caller's instance (NoObj until a *)
(* constructor returns one); ctor: how the constructor call ended;         *)
(* params0: the instance and the heap as the constructor left them; xref:  *)
(* the caller's batch X; ret: how the last call ended; thr: the threads of *)
(* the concurrent callers.                                                 *)
(***************************************************************************)
NoRet == [op |-> "none", kind |-> "none", exc |-> "", ref |-> 0, val |-> NoVal]
NoCtor == [cls |-> "none", status |-> "none", exc |-> "", inst |-> NoObj, out |-> NoArr]

Init ==
  /\ heap = <<>>
  /\ obj = NoObj
  /\ ctor = NoCtor
  /\ params0 = [obj |-> NoObj, heap |-> <<>>]
  /\ xref = 0
  /\ ret = NoRet
  /\ thr = <<>>

\* obj = Cls(args): the caller's name is bound only when __init__ returns.
Construct(cls, r) ==
  /\ obj.cls = "none"
  /\ ctor.status = "none"
  /\ heap' = r.heap
  /\ ctor' = [cls |-> cls, status |-> r.status, exc |-> r.exc, inst |-> r.inst,
              out |-> r.out]
  /\ obj' = IF r.status = "ok" THEN r.inst ELSE NoObj
  /\ params0' = [obj |-> obj', heap |-> heap']
  /\ UNCHANGED <<xref, ret, thr>>

NewIsotropicNormal ==
  \E a \in IsotropicNormalArgs :
    Construct("IsotropicNormal", Apply("IsotropicNormal", <<<<a.mean>>, 1, a.variance>>))

NewNormal ==
  \E a \in NormalArgs : Construct("Normal", Apply("Normal", <<<<a.mean, a.cov>>, 1, 2>>))

NewGaussBernRBM ==
  \E a \in GaussBernRBMArgs :
    Construct("GaussBernRBM", Apply("GaussBernRBM", <<<<a.B, a.b, a.c>>, 1, 2, 3>>))

NewNonHomPoissonLinear ==
  \E b \in SlopeArgs : 
      Construct("NonHomPoissonLinear", Apply("NonHomPoissonLinear", <<<<>>, b>>))

NewNonHomPoissonSine ==
  \E a \in SineArgs :
    Construct("NonHomPoissonSine", Apply("NonHomPoissonSine", <<<<>>, a.w, a.b>>))

NewGamma ==
  \E a \in GammaArgs : Construct("Gamma", Apply("Gamma", <<<<>>, a.alpha, a.beta>>))

NewLogGamma ==
  \E a \in GammaArgs : 
      Construct("LogGamma", Apply("LogGamma", <<<<>>, a.alpha, a.beta>>))

NewLogPoissonLinear ==
  \E b \in SlopeArgs : 
      Construct("LogPoissonLinear", Apply("LogPoissonLinear", <<<<>>, b>>))

\* The caller makes a new batch X, letting go of the last one and of the
\* last result.
NewBatch ==
  /\ obj.cls # "none"
  /\ \E X \in Batches(obj, heap) :
       LET h0 == HDel(heap, {xref, ret.ref})
           id == Alloc(h0)
       IN /\ heap' = HPut(h0, id, X)
          /\ xref' = id
  /\ ret' = NoRet
  /\ UNCHANGED <<obj, ctor, params0, thr>>

\* The caller binds the outcome of a call.  An array the call allocated
\* gets a cell of its own; an array that occupies an existing buffer is
\* written there and the result refers to that cell.
Commit(op, out) ==
  LET h0  == HDel(heap, {ret.ref} \ {xref})
      has == out.arr.nd >= 0
      id  == IF ~has THEN 0
             ELSE IF out.arr.base # 0 THEN out.arr.base
             ELSE Alloc(h0)
  IN /\ heap' = IF has THEN HPut(h0, id, [out.arr EXCEPT !.base = 0]) ELSE h0
     /\ ret' = [op |-> op, kind |-> out.kind, exc |-> out.exc, ref |-> id, val |-> out.val]
     /\ UNCHANGED <<obj, ctor, params0, xref, thr>>

CallLogDen ==
  /\ obj.cls # "none" /\ xref # 0
  /\ Commit("log_den", Apply("log_den", <<obj, heap, Load(heap, xref)>>))

CallGradLog ==
  /\ obj.cls # "none" /\ xref # 0
  /\ Commit("grad_log", Apply("grad_log", <<obj, heap, Load(heap, xref)>>))

CallLogNormalizedDen ==
  /\ obj.cls # "none" /\ xref # 0
  /\ Commit("log_normalized_den",
            Apply("log_normalized_den", <<obj, heap, Load(heap, xref)>>))

CallDim ==
  /\ obj.cls # "none"
  /\ Commit("dim", Apply("dim", <<obj, heap>>))

CallGetDatasource ==
  /\ obj.cls # "none"
  /\ Commit("get_datasource", Apply("get_datasource", <<obj>>))

Next ==
  \/ NewIsotropicNormal
  \/ NewNormal
  \/ NewGaussBernRBM
  \/ NewNonHomPoissonLinear
  \/ NewNonHomPoissonSine
  \/ NewGamma
  \/ NewLogGamma
  \/ NewLogPoissonLinear
  \/ NewBatch
  \/ CallLogDen
  \/ CallGradLog
  \/ CallLogNormalizedDen
  \/ CallDim
  \/ CallGetDatasource

Spec == Init /\ [][Next]_vars

(***************************************************************************)
(* Concurrent callers.  Several callers invoke log_den and grad_log on one *)
(* constructed instance; a call runs one statement of the method at a      *)
(* time, and the statements of different calls interleave freely.  thr[t]  *)
(* is call t: the method, the caller's batch X, pc the statement it is at, *)
(* loc the local variables of its frame, res its outcome.                  *)
(***************************************************************************)
MaxCallers == 2

Done == 6

\* A call that shares the frame of the first call.
SharedFrame(t) == 1

\* The frame of call t: its own.
Frame(t) == t

ConcInstances ==
  {[cls |-> "Normal",
    args |-> <<<<Vec(<<1, 0>>), Mat(<<<<2, 1>>, <<1, 2>>>>)>>, 1, 2>>],
   [cls |-> "IsotropicNormal", args |-> <<<<Vec(<<1, 2>>)>>, 1, Num(2)>>]}

\* The calls the callers make.
ConcCalls ==
  {[op |-> "log_den", X |-> Mat(<<<<1, 2>>, <<0, 1>>>>)],
   [op |-> "grad_log", X |-> Mat(<<<<0, 1>>>>)]}

\* The state once the constructor call r of class cls has returned.
ConstructedBy(cls, r) ==
  /\ heap = r.heap
  /\ obj = r.inst
  /\ ctor = [cls |-> cls, status |-> r.status, exc |-> r.exc, inst |-> r.inst,
             out |-> r.out]
  /\ params0 = [obj |-> r.inst, heap |-> r.heap]
  /\ xref = 0
  /\ ret = NoRet
  /\ thr = <<>>

InitConc == \E c \in ConcInstances : ConstructedBy(c.cls, Apply(c.cls, c.args))

\* Call t moves to pc with the frame Frame(t) set to loc.
Advance(t, pc, loc, res) ==
  LET thr1 == [thr EXCEPT ![Frame(t)].loc = loc]
  IN /\ thr' = [thr1 EXCEPT ![t].pc = pc, ![t].res = res]
     /\ UNCHANGED <<heap, obj, ctor, params0, xref, ret>>

\* A caller invokes log_den(X) or grad_log(X).
Invoke ==
  /\ Len(thr) < MaxCallers
  /\ \E c \in ConcCalls :
       thr' = Append(thr, [op |-> c.op, X |-> c.X, pc |-> IF c.op = "grad_log" THEN 0 ELSE 1,
                           loc |-> <<>>, res |-> Raise("pending")])
  /\ UNCHANGED <<heap, obj, ctor, params0, xref, ret>>

\* g = autograd.elementwise_grad(self.log_den)
Bind(t) ==
  /\ thr[t].pc = 0
  /\ Advance(t, 1, SetAttr(thr[Frame(t)].loc, "g", "elementwise_grad(self.log_den)"),
             thr[t].res)

\* One statement of log_den.
Statement(t) ==
  /\ thr[t].pc \in 1..3
  /\ Advance(t, IF thr[t].pc = 3 /\ thr[t].op = "log_den" THEN 5 ELSE thr[t].pc + 1,
             Apply("statement", <<obj, heap, thr[t], thr[Frame(t)].loc>>), thr[t].res)

\* G = g(X)
Assemble(t) ==
  /\ thr[t].pc = 4
  /\ Advance(t, 5, SetAttr(thr[Frame(t)].loc, "G",
                           Apply("g", <<thr[t], thr[Frame(t)].loc>>)), thr[t].res)

\* return unden, return G
Return(t) ==
  /\ thr[t].pc = 5
  /\ Advance(t, Done, thr[Frame(t)].loc,
             IF thr[t].op = "log_den"
             THEN Value(Primal(thr[Frame(t)].loc.unden[NoSeed]))
             ELSE Value(thr[Frame(t)].loc.G))

NextConc ==
  \/ Invoke
  \/ \E t \in 1..Len(thr) : Bind(t)
  \/ \E t \in 1..Len(thr) : Statement(t)
  \/ \E t \in 1..Len(thr) : Assemble(t)
  \/ \E t \in 1..Len(thr) : Return(t)

SpecConc == InitConc /\ [][NextConc]_vars

(***************************************************************************)
(* Properties.  In a state of Spec, ctor tells how the constructor call    *)
(* ended and its arguments are the first cells of the heap; obj is the     *)
(* instance the caller holds, heap[xref] the caller's batch and ret the     *)
(* outcome of the last call on it.                                         *)
(***************************************************************************)
Constructed(cls) == obj.cls = cls
Returned(op) == ret.op = op /\ ret.kind = "value"
Raised(op, exc) == ret.op = op /\ ret.kind = "raise" /\ ret.exc = exc
Result == heap[ret.ref]
Batch == heap[xref]

\* C1: for every valid GaussBernRBM and every batch X of width dx, the
\* analytic grad_log(X) equals, element for element, the gradient obtained
\* by differentiating the instance's log_den at X.
C1_AnalyticGradEqualsDifferentiated ==
  (Constructed("GaussBernRBM") /\ ret.op = "grad_log") =>
    /\ ret.kind = "value"
    /\ ArrEq(Result, UnnormalizedDensity_grad_log(obj, heap, Batch))

\* C1 on the batches without the large entry, where np.exp(2*Y) stays
\* finite: there the two gradients agree.
C1_AgreeWhereExpIsFinite ==
  (Constructed("GaussBernRBM") /\ ret.op = "grad_log"
     /\ \A i \in 1..Rows(Batch) : \A j \in 1..Cols(Batch) : Batch.a[i][j] # Num(400)) =>
    /\ ret.kind = "value"
    /\ ArrEq(Result, UnnormalizedDensity_grad_log(obj, heap, Batch))

\* The arguments of the constructor call, as the caller passed them.
CtorArg(k) == heap[k]
Attrs(inst) == DOMAIN inst \ {"cls"}

\* Some eigenvalue of the square matrix cov has magnitude at most 1e-7.
SmallEigenvalue(cov) ==
  \E k \in 1..Rows(cov) :
    LET l == Eig(cov).E.a[k].r
    IN \/ REq(l, RInt(0))
       \/ RSign(l) = 1 /\ RLeq(l, RFrac(1, EigTolInv))
       \/ RSign(l) = -1 /\ RLeq(RFrac(-1, EigTolInv), l)

\* C2: Normal(mean, cov) fails, and the caller gets no object, when
\* len(mean) differs from cov.shape[0], or cov is not square, or an
\* eigenvalue of cov has magnitude at most 1e-7; otherwise it succeeds.
C2_NormalConstruction ==
  ctor.cls = "Normal" =>
    LET mean == CtorArg(1)
        cov  == CtorArg(2)
        bad  == \/ mean.sh[1] # cov.sh[1]
                \/ cov.sh[1] # cov.sh[2]
                \/ SmallEigenvalue(cov)
    IN /\ bad => (ctor.status = "raised" /\ obj = NoObj)
       /\ ~bad => (ctor.status = "ok" /\ obj.cls = "Normal")

\* A covariance with an eigenvalue of exactly 1e-7 was refused.
C2_Witness ==
  /\ ctor.cls = "Normal"
  /\ ctor.status = "raised"
  /\ ctor.exc = "ValueError"
  /\ CtorArg(2).a[1][1] = Frac(1, EigTolInv)

\* C3: GaussBernRBM(B, b, c) fails, and the caller gets no object, when
\* B.shape differs from (len(b), len(c)) or len(b) = 0 or len(c) = 0; B, b
\* and c are attributes of the instance only when the checks passed.
C3_RBMConstruction ==
  ctor.cls = "GaussBernRBM" =>
    LET B   == CtorArg(1)
        b   == CtorArg(2)
        c   == CtorArg(3)
        bad == B.sh # <<b.sh[1], c.sh[1]>> \/ b.sh[1] = 0 \/ c.sh[1] = 0
    IN /\ bad => (ctor.status = "raised" /\ obj = NoObj)
       /\ Attrs(ctor.inst) # {} => (~bad /\ Attrs(ctor.inst) = {"B", "b", "c"})

\* A construction with an empty b was refused.
C3_Witness ==
  /\ ctor.cls = "GaussBernRBM"
  /\ ctor.status = "raised"
  /\ CtorArg(2).sh[1] = 0
  /\ CtorArg(1).sh = <<0, 1>>

\* C4 as stated: an optional operation a variant does not implement ends
\* with the error "not implemented", never with a value such as None.
NoDatasource == {"NonHomPoissonLinear", "NonHomPoissonSine", "LogPoissonLinear"}

C4_UnsupportedIsAnError ==
  /\ (ret.op = "log_normalized_den" /\ obj.cls # "IsotropicNormal") =>
       Raised("log_normalized_den", "NotImplementedError")
  /\ (ret.op = "get_datasource" /\ obj.cls \in NoDatasource) =>
       Raised("get_datasource", "NotImplementedError")

\* C4 amended: log_normalized_den of a variant other than IsotropicNormal
\* ends with the error "not implemented"; get_datasource of
\* NonHomPoissonLinear, NonHomPoissonSine and LogPoissonLinear returns None.
C4_UnsupportedSignals ==
  /\ (ret.op = "log_normalized_den" /\ obj.cls # "IsotropicNormal") =>
       Raised("log_normalized_den", "NotImplementedError")
  /\ (ret.op = "get_datasource" /\ obj.cls \in NoDatasource) =>
       (Returned("get_datasource") /\ ret.val = NoneVal)

C4_Witness ==
  /\ Constructed("LogPoissonLinear")
  /\ Returned("get_datasource")
  /\ ret.val = NoneVal

\* C5: get_datasource() of a Gamma or LogGamma ends with the unsupported
\* result (None, or the error "not implemented") and reads no mean or cov
\* attribute, which the instance does not have.
C5_GammaDatasourceUnsupported ==
  (obj.cls \in {"Gamma", "LogGamma"} /\ ret.op = "get_datasource") =>
    /\ ~Raised("get_datasource", "AttributeError")
    /\ \/ Returned("get_datasource") /\ ret.val = NoneVal
       \/ Raised("get_datasource", "NotImplementedError")

\* cov @ prec, and whether a matrix of scalars is the identity.
MatMul(A, B) == Primal(NpDot(Lift(A), Lift(B)))
IsIdentity(A) ==
  /\ Rows(A) = Cols(A)
  /\ \A i \in 1..Rows(A) : \A j \in 1..Cols(A) :
       SEq(A.a[i][j], Num(IF i = j THEN 1 ELSE 0))
IsSymmetric(A) ==
  /\ Rows(A) = Cols(A)
  /\ \A i \in 1..Rows(A) : \A j \in 1..Cols(A) : SEq(A.a[i][j], A.a[j][i])

\* prec is the array the constructor computed, in the cell it was put in.
PrecAsConstructed ==
  /\ obj.prec = ctor.inst.prec
  /\ heap[obj.prec] = ctor.out

ParamRefs(o) ==
  CASE o.cls = "IsotropicNormal" -> {o.mean}
    [] o.cls = "Normal" -> {o.mean, o.cov, o.prec}
    [] o.cls = "GaussBernRBM" -> {o.B, o.b, o.c}
    [] OTHER -> {}

\* C7: a call of log_den, grad_log, dim, log_normalized_den or
\* get_datasource leaves the instance and its parameters as the constructor
\* set them and leaves the caller's batch X as it was; the instance holds
\* no reference to X, and an array the call returns is in a cell that is
\* neither X's nor a parameter's.
C7_CallsLeaveParametersAndBatch ==
  [][(obj.cls # "none" /\ ret'.op # "none") =>
       /\ obj' = obj
       /\ obj' = params0.obj
       /\ \A r \in ParamRefs(obj) : heap'[r] = params0.heap[r]
       /\ xref' = xref
       /\ xref # 0 => (heap'[xref] = heap[xref] /\ xref \notin ParamRefs(obj'))
       /\ ret'.ref # 0 => (ret'.ref # xref /\ ret'.ref \notin ParamRefs(obj'))]_vars

\* A GaussBernRBM has returned a gradient for a batch of two rows.
C7_Witness ==
  /\ Constructed("GaussBernRBM")
  /\ Returned("grad_log")
  /\ Rows(Batch) = 2
  /\ ret.ref \notin {xref} \cup ParamRefs(obj)

\* C9: for an IsotropicNormal(mean, variance) with variance > 0 and an
\* n x d batch X, d = len(mean), log_den(X) has length n and its i-th entry
\* is -sum_j (X[i][j] - mean[j])^2 / (2*variance); with mean = [0, 0] and
\* variance = 1, log_den([[0, 0], [1, 1]]) = [0, -1]; dim() is len(mean).
C9_IsotropicNormalLogDen ==
  Constructed("IsotropicNormal") =>
    LET mean == heap[obj.mean].a
        d    == Len(mean)
    IN /\ ret.op = "log_den" =>
            /\ ret.kind = "value"
            /\ Result.nd = 1
            /\ Len(Result.a) = Rows(Batch)
            /\ \A i \in 1..Rows(Batch) :
                 SEq(Result.a[i],
                     SNeg(SDiv(SSumSeq([j \in 1..d |->
                                          SPow(SSub(Batch.a[i][j], mean[j]), 2)]),
                               SMul(Num(2), obj.variance))))
            /\ (mean = <<Num(0), Num(0)>> /\ obj.variance = Num(1)
                  /\ Batch = Mat(<<<<0, 0>>, <<1, 1>>>>)) =>
                 ArrEq(Result, Vec(<<0, -1>>))
       /\ ret.op = "dim" => (ret.kind = "value" /\ ret.val = IntVal(d))

\* The example of the claim has been evaluated.
C9_Witness ==
  /\ Constructed("IsotropicNormal")
  /\ heap[obj.mean] = Vec(<<0, 0>>)
  /\ obj.variance = Num(1)
  /\ Returned("log_den")
  /\ Batch = Mat(<<<<0, 0>>, <<1, 1>>>>)
  /\ SSign(obj.variance) = 1

\* C10: for a variant other than GaussBernRBM, grad_log(X) is the
\* differentiation engine applied to the instance's log_den at X, it has
\* the shape n x d of X, and its i-th row is the gradient the instance
\* gives for the i-th row of X alone, whatever the other rows are.
C10_DefaultGradLogRowWise ==
  (obj.cls \notin {"none", "GaussBernRBM"} /\ ret.op = "grad_log") =>
    /\ ret.kind = "value"
    /\ Result.nd = 2
    /\ Result.sh = Batch.sh
    /\ ArrEq(Result, ElementwiseGrad(LAMBDA Z : log_den(obj, heap, Z), Batch))
    /\ \A i \in 1..Rows(Batch) :
         LET Xi == Arr(2, <<Batch.a[i]>>)
             Gi == Apply("grad_log", <<obj, heap, Xi>>).arr
         IN \A j \in 1..Cols(Batch) : SEq(Result.a[i][j], Gi.a[1][j])

\* A default grad_log has returned for a batch of two different rows.
C10_Witness ==
  /\ obj.cls \in {"Normal", "NonHomPoissonSine", "LogGamma"}
  /\ Returned("grad_log")
  /\ Rows(Batch) = 2
  /\ Batch.a[1] # Batch.a[2]

\* C8: when several callers run log_den and grad_log on one instance, in
\* any interleaving, the instance and its parameters stay as constructed,
\* a call that returns returns what the call alone returns for the same X,
\* and a step of one call changes nothing of another call: not its frame,
\* not its position, not its result.
C8_ConcurrentCallsAsAlone ==
  /\ [](obj = params0.obj /\ heap = params0.heap)
  /\ [][\A t \in 1..Len(thr) :
          /\ thr'[t] # thr[t] => thr'[t].pc # thr[t].pc
          /\ (thr[t].pc # Done /\ thr'[t].pc = Done) =>
               /\ thr'[t].res.kind = "value"
               /\ ArrEq(thr'[t].res.arr,
                        Apply(thr[t].op, <<obj, heap, thr[t].X>>).arr)]_vars

\* A call has returned while another call, of the other method and on
\* another batch, was between two of its statements.
C8_Witness ==
  /\ Len(thr) = 2
  /\ thr[1].op # thr[2].op
  /\ thr[1].X # thr[2].X
  /\ thr[1].pc = 3 /\ thr[1].loc # <<>>
  /\ thr[2].pc = Done /\ thr[2].res.kind = "value"

====
